---------------------------- MODULE Spec2Model ----------------------------
(***************************************************************************)
(* A model of the SRIG layout plugin (srig_layout_v1.py): the natural      *)
(* sort of reference labels, the CSV/JSON via-table loaders, the grid      *)
(* placement of vias, the footprint re-spacing operations, the JSON to CSV *)
(* converter and the plugin entry point with its configuration dialog.     *)
(*                                                                         *)
(* Text is a sequence of one-character strings.  A Python float holding a  *)
(* length in millimetres is an integer number of thousandths of a          *)
(* millimetre; a float holding mils is an exact fraction [n, d].  Host     *)
(* coordinates are integers in internal units (IU, nanometres).            *)
(***************************************************************************)
EXTENDS Integers, Sequences, FiniteSets, TLC

VARIABLES
    pc,         \* position of the running operation
    err,        \* the exception that ended the operation, or "none"
    l,          \* natural_sort: the argument list
    ret,        \* natural_sort: the returned list
    csvFile,    \* the CSV file on disk: <<header, row, ...>>, or <<>>
    jsonFile,   \* the JSON file on disk: <<[k, v], ...>> in file order
    viaDict,    \* the mapping a loader returned, in insertion order
    xStep,      \* step arguments of the running operation
    yStep,
    numCols,
    board,      \* the elements added to the board, in order of board.Add
    fpList,     \* the footprints of the board, in host iteration order
    fpBefore,   \* the footprints as they were when the operation began
    dlg         \* the ViaGridDialog object

vars == <<pc, err, l, ret, csvFile, jsonFile, viaDict, xStep, yStep, numCols,
          board, fpList, fpBefore, dlg>>

-----------------------------------------------------------------------------
(* Characters and text *)

Digits == <<"0", "1", "2", "3", "4", "5", "6", "7", "8", "9">>

\* str.isdigit() of one character
IsDigitChar(c) == \E i \in 1..10 : Digits[i] = c

DigitVal(c) == (CHOOSE i \in 1..10 : Digits[i] = c) - 1

\* ord(c) for the characters the model uses
Ord(c) ==
    IF IsDigitChar(c) THEN 48 + DigitVal(c)
    ELSE CASE c = " " -> 32
           [] c = "*" -> 42
           [] c = "+" -> 43
           [] c = "-" -> 45
           [] c = "." -> 46
           [] c = "A" -> 65
           [] c = "B" -> 66
           [] c = "a" -> 97
           [] c = "b" -> 98
           [] c = "n" -> 110
           [] c = "x" -> 120

\* str.lower() of one character
LowerChar(c) == CASE c = "A" -> "a" [] c = "B" -> "b" [] OTHER -> c

Lower(s) == [i \in 1..Len(s) |-> LowerChar(s[i])]

\* Python's < on two str values: lexicographic by code point, a proper
\* prefix is smaller
RECURSIVE StrLess(_, _)
StrLess(s, t) ==
    IF t = <<>> THEN FALSE
    ELSE IF s = <<>> THEN TRUE
    ELSE IF Ord(Head(s)) # Ord(Head(t)) THEN Ord(Head(s)) < Ord(Head(t))
    ELSE StrLess(Tail(s), Tail(t))

\* int(text) of a run of decimal digits
RECURSIVE IntOfDigits(_)
IntOfDigits(s) ==
    IF s = <<>> THEN 0
    ELSE 10 * IntOfDigits(SubSeq(s, 1, Len(s) - 1)) + DigitVal(s[Len(s)])

\* '%d' % n, also str(n), of an integer
RECURSIVE NatToStr(_)
NatToStr(n) ==
    IF n < 10 THEN <<Digits[n + 1]>>
    ELSE Append(NatToStr(n \div 10), Digits[(n % 10) + 1])

IntToStr(n) == IF n < 0 THEN <<"-">> \o NatToStr(-n) ELSE NatToStr(n)

-----------------------------------------------------------------------------
(* natural_sort *)

\* the length of the longest prefix of s made of digits (isDig = TRUE) or
\* of non-digits (isDig = FALSE)
RECURSIVE RunLen(_, _)
RunLen(s, isDig) ==
    IF s = <<>> \/ IsDigitChar(Head(s)) # isDig THEN 0
    ELSE 1 + RunLen(Tail(s), isDig)

\* re.split('([0-9]+)', key): the non-digit runs (possibly empty) at the odd
\* places and the digit runs between them; wantDig tells the kind of the
\* next run
RECURSIVE ReSplit(_, _)
ReSplit(s, wantDig) ==
    LET n == RunLen(s, wantDig)
        rest == SubSeq(s, n + 1, Len(s))
    IN  IF wantDig
        THEN <<SubSeq(s, 1, n)>> \o ReSplit(rest, FALSE)
        ELSE IF rest = <<>> THEN <<SubSeq(s, 1, n)>>
             ELSE <<SubSeq(s, 1, n)>> \o ReSplit(rest, TRUE)

\* a faulty variant of convert: digit runs stay text
convertNoInt(text) == [isInt |-> FALSE, s |-> Lower(text)]

\* convert = lambda text: int(text) if text.isdigit() else text.lower()
convert(text) ==
    IF text # <<>> /\ \A i \in 1..Len(text) : IsDigitChar(text[i])
    THEN [isInt |-> TRUE, n |-> IntOfDigits(text)]
    ELSE [isInt |-> FALSE, s |-> Lower(text)]

\* alphanum_key = lambda key: [convert(c) for c in re.split('([0-9]+)', key)]
alphanum_key(key) ==
    LET parts == ReSplit(key, FALSE)
    IN  [i \in 1..Len(parts) |-> convert(parts[i])]

\* Python's < on two elements of a key.  The runs alternate, so elements at
\* the same place are both int or both str.
ElemLess(a, b) ==
    IF a.isInt /\ b.isInt THEN a.n < b.n
    ELSE IF ~a.isInt /\ ~b.isInt THEN StrLess(a.s, b.s)
    ELSE FALSE

\* Python's < on two lists: the first differing elements decide, a proper
\* prefix is smaller
RECURSIVE ListLess(_, _)
ListLess(a, b) ==
    IF b = <<>> THEN FALSE
    ELSE IF a = <<>> THEN TRUE
    ELSE IF Head(a) # Head(b) THEN ElemLess(Head(a), Head(b))
    ELSE ListLess(Tail(a), Tail(b))

\* sorted(...) on a list of [key, val] pairs: stable, by Python's < on the
\* keys.  x goes behind every element it is not smaller than.
RECURSIVE InsertStable(_, _)
InsertStable(x, s) ==
    IF s = <<>> THEN <<x>>
    ELSE IF ListLess(x.key, s[Len(s)].key)
         THEN Append(InsertStable(x, SubSeq(s, 1, Len(s) - 1)), s[Len(s)])
         ELSE Append(s, x)

RECURSIVE SortPairs(_)
SortPairs(ps) ==
    IF ps = <<>> THEN <<>>
    ELSE InsertStable(ps[Len(ps)], SortPairs(SubSeq(ps, 1, Len(ps) - 1)))

Vals(ps) == [i \in 1..Len(ps) |-> ps[i].val]

\* def natural_sort(l): return sorted(l, key=alphanum_key)
natural_sort(xs) ==
    Vals(SortPairs([i \in 1..Len(xs) |-> [key |-> alphanum_key(xs[i]), val |-> xs[i]]]))

-----------------------------------------------------------------------------
(* Python numbers *)

\* a float: v counts thousandths; nan is float('nan')
F(v) == [nan |-> FALSE, v |-> v]
NaN == [nan |-> TRUE, v |-> 0]

FAdd(a, b) == IF a.nan \/ b.nan THEN NaN ELSE F(a.v + b.v)

\* float * int
FMulInt(a, n) == IF a.nan THEN NaN ELSE F(a.v * n)

\* float / 2
FHalf(a) == IF a.nan THEN NaN ELSE F(a.v \div 2)

\* a <= 0 on a float: every comparison with nan is False
FLeqZero(a) == ~a.nan /\ a.v <= 0

\* str.strip() for blanks
RECURSIVE LStrip(_)
LStrip(s) == IF s # <<>> /\ Head(s) = " " THEN LStrip(Tail(s)) ELSE s

RECURSIVE RStrip(_)
RStrip(s) ==
    IF s # <<>> /\ s[Len(s)] = " " THEN RStrip(SubSeq(s, 1, Len(s) - 1)) ELSE s

Strip(s) == LStrip(RStrip(s))

AllDigits(s) == \A i \in 1..Len(s) : IsDigitChar(s[i])

\* the text without its optional sign, and the sign
Unsigned(s) == IF s # <<>> /\ Head(s) \in {"+", "-"} THEN Tail(s) ELSE s
SignOf(s) == IF s # <<>> /\ Head(s) = "-" THEN -1 ELSE 1

\* int(text): [ok, n]; ok = FALSE is ValueError
IntOf(text) ==
    LET u == Unsigned(Strip(text))
    IN  IF u # <<>> /\ AllDigits(u)
        THEN [ok |-> TRUE, n |-> SignOf(Strip(text)) * IntOfDigits(u)]
        ELSE [ok |-> FALSE, n |-> 0]

\* the first three decimals of a digit run, as thousandths
FracOf(d) ==
    LET p == SubSeq(d \o <<"0", "0", "0">>, 1, 3)
    IN  IntOfDigits(p)

\* float(text): [ok, f]; ok = FALSE is ValueError.  Decimal notation and
\* nan are read; decimals beyond the third are not held by the model.
FloatOf(text) ==
    LET t == Strip(text)
        u == Unsigned(t)
        n == RunLen(u, TRUE)
        rest == SubSeq(u, n + 1, Len(u))
        frac == IF rest = <<>> THEN <<>> ELSE Tail(rest)
    IN  IF Lower(u) = <<"n", "a", "n">> THEN [ok |-> TRUE, f |-> NaN]
        ELSE IF /\ (rest = <<>> \/ Head(rest) = ".")
                /\ AllDigits(frac)
                /\ n + Len(frac) > 0
             THEN [ok |-> TRUE,
                   f |-> F(SignOf(t) * (1000 * IntOfDigits(SubSeq(u, 1, n)) + FracOf(frac)))]
             ELSE [ok |-> FALSE, f |-> NaN]

\* digits of the thousandths without trailing zeros, at least one digit
RECURSIVE TrimZeros(_)
TrimZeros(d) ==
    IF Len(d) > 1 /\ d[Len(d)] = "0" THEN TrimZeros(SubSeq(d, 1, Len(d) - 1)) ELSE d

Pad3(n) == <<Digits[(n \div 100) + 1], Digits[((n \div 10) % 10) + 1], Digits[(n % 10) + 1]>>

\* a faulty variant of FloatRepr: the sign is not written
FloatReprNoSign(f) ==
    IF f.nan THEN <<"n", "a", "n">>
    ELSE LET a == IF f.v < 0 THEN -f.v ELSE f.v
         IN  NatToStr(a \div 1000) \o <<".">> \o TrimZeros(Pad3(a % 1000))

\* repr(f) of a float, as csv and str() write it: '1.88', '2.0', '-0.5'
FloatRepr(f) ==
    IF f.nan THEN <<"n", "a", "n">>
    ELSE LET a == IF f.v < 0 THEN -f.v ELSE f.v
         IN  (IF f.v < 0 THEN <<"-">> ELSE <<>>)
             \o NatToStr(a \div 1000) \o <<".">> \o TrimZeros(Pad3(a % 1000))

\* a JSON number: an int or a float.  float(x) and str(x) of it.
PyFloat(x) == IF x.isInt THEN F(1000 * x.n) ELSE x.f
PyStr(x) == IF x.isInt THEN IntToStr(x.n) ELSE FloatRepr(x.f)

-----------------------------------------------------------------------------
(* Python dict: a sequence of [k, v] items in insertion order *)

Keys(d) == [i \in 1..Len(d) |-> d[i].k]

HasKey(d, k) == \E i \in 1..Len(d) : d[i].k = k

Get(d, k) == d[CHOOSE i \in 1..Len(d) : d[i].k = k].v

\* d[k] = v: a new key goes last, a known key keeps its place
DictSet(d, k, v) ==
    IF HasKey(d, k)
    THEN [i \in 1..Len(d) |-> IF d[i].k = k THEN [k |-> k, v |-> v] ELSE d[i]]
    ELSE Append(d, [k |-> k, v |-> v])

-----------------------------------------------------------------------------
(* restoreCSV *)

HasCol(header, name) == \E i \in 1..Len(header) : header[i] = name

\* row[name] of a csv.DictReader row: the field under the column's header;
\* a row shorter than the header holds None there
ColOf(header, name) == CHOOSE i \in 1..Len(header) : header[i] = name

IsNone(header, row, name) == ColOf(header, name) > Len(row)

Field(header, row, name) == row[ColOf(header, name)]

\* the exception int(row[name]) or float(row[name]) raises, or "none"
FieldErr(header, row, name, isIndex) ==
    IF ~HasCol(header, name) THEN "KeyError"
    ELSE IF IsNone(header, row, name) THEN "TypeError"
    ELSE IF isIndex /\ ~IntOf(Field(header, row, name)).ok THEN "ValueError"
    ELSE IF ~isIndex /\ ~FloatOf(Field(header, row, name)).ok THEN "ValueError"
    ELSE "none"

\* the first exception of the body of the row loop: the statements run in
\* the order index, X, Y, ID, OD
RowErr(header, row) ==
    LET names == <<"index", "X", "Y", "ID", "OD">>
        bad == {i \in 1..5 : FieldErr(header, row, names[i], i = 1) # "none"}
    IN  IF bad = {} THEN "none"
        ELSE LET i == CHOOSE j \in bad : \A h \in bad : j <= h
             IN  FieldErr(header, row, names[i], i = 1)

\* {"X": float(row["X"]), "Y": ..., "ID": ..., "OD": ...}
RowValue(header, row) ==
    [X  |-> FloatOf(Field(header, row, "X")).f,
     Y  |-> FloatOf(Field(header, row, "Y")).f,
     ID |-> FloatOf(Field(header, row, "ID")).f,
     OD |-> FloatOf(Field(header, row, "OD")).f]

\* k = str(int(row["index"]))
RowKey(header, row) == IntToStr(IntOf(Field(header, row, "index")).n)

\* a faulty variant of RestoreRows: a row that does not parse is passed over
RECURSIVE RestoreRowsSkipBad(_, _, _)
RestoreRowsSkipBad(file, i, d) ==
    IF i > Len(file) THEN [err |-> "none", d |-> d]
    ELSE IF file[i] = <<>> \/ RowErr(file[1], file[i]) # "none"
         THEN RestoreRowsSkipBad(file, i + 1, d)
         ELSE RestoreRowsSkipBad(file, i + 1,
                  DictSet(d, RowKey(file[1], file[i]), RowValue(file[1], file[i])))

\* the loop over the rows, from row i of the file, with d built so far;
\* csv.DictReader passes over rows without fields
RECURSIVE RestoreRows(_, _, _)
RestoreRows(file, i, d) ==
    IF i > Len(file) THEN [err |-> "none", d |-> d]
    ELSE IF file[i] = <<>> THEN RestoreRows(file, i + 1, d)
    ELSE IF RowErr(file[1], file[i]) # "none"
         THEN [err |-> RowErr(file[1], file[i]), d |-> <<>>]
         ELSE RestoreRows(file, i + 1,
                  DictSet(d, RowKey(file[1], file[i]), RowValue(file[1], file[i])))

\* def restoreCSV(inputName): [err, d]; the first row of the file is the
\* header, and a file without rows gives {}
restoreCSV(file) ==
    IF file = <<>> THEN [err |-> "none", d |-> <<>>]
    ELSE RestoreRows(file, 2, <<>>)

-----------------------------------------------------------------------------
(* Host units and board elements *)

\* pcbIUScale.IU_PER_MM: internal units per millimetre
IU_PER_MM == 1000000

\* pcbIUScale.IU_PER_MILS: internal units per mil
IU_PER_MILS == 25400

\* pcbnew.FromMM, pcbIUScale.mmToIU of a float that is not nan: here the
\* thousandths are whole numbers of internal units
FromMM(f) == f.v * (IU_PER_MM \div 1000)

\* pcbnew.ToMM of an integer of internal units
ToMM(iu) == F(iu \div (IU_PER_MM \div 1000))

\* int(...) of a nan raises ValueError: whether wxPointMM(x, y) raises
PointRaises(x, y) == x.nan \/ y.nan

\* a faulty variant of create_via: the back mask circle is not added
create_viaOneMask(xPos, yPos, drillSize, drillWidth) ==
    LET px == FromMM(xPos)
        py == FromMM(yPos)
        startX == FromMM(xPos)
        circRadius == FromMM(FHalf(drillWidth)) + startX
    IN  << [type |-> "via", x |-> px, y |-> py,
            drill |-> FromMM(drillSize), width |-> FromMM(drillWidth)],
           [type |-> "circle", layer |-> "F.Mask", x |-> px, y |-> py,
            startX |-> startX, endX |-> circRadius, filled |-> TRUE] >>

\* def create_via(board, net, xPos, yPos, drillSize, drillWidth): the
\* elements it adds to the board, in order (addMaskBool is True at every
\* call)
create_via(xPos, yPos, drillSize, drillWidth) ==
    LET px == FromMM(xPos)
        py == FromMM(yPos)
        startX == FromMM(xPos)
        circRadius == FromMM(FHalf(drillWidth)) + startX
    IN  << [type |-> "via", x |-> px, y |-> py,
            drill |-> FromMM(drillSize), width |-> FromMM(drillWidth)],
           [type |-> "circle", layer |-> "B.Mask", x |-> px, y |-> py,
            startX |-> startX, endX |-> circRadius, filled |-> TRUE],
           [type |-> "circle", layer |-> "F.Mask", x |-> px, y |-> py,
            startX |-> startX, endX |-> circRadius, filled |-> TRUE] >>

-----------------------------------------------------------------------------
(* funnelFromCSV, funnelFromJson *)

\* sorted(list(viaDict.keys()), key=lambda s: int(s))
SortedKeys(d) ==
    Vals(SortPairs([i \in 1..Len(d) |->
        [key |-> <<[isInt |-> TRUE, n |-> IntOf(d[i].k).n]>>, val |-> d[i].k]]))

\* list(viaDict.keys())
ListKeys(d) == Keys(d)

\* the label of a record: text.SetText('%d' % (int(k) + 1)) at
\* wxPointMM(curX, curY + curOD/2 + 4)
LabelOf(k, curX, curY, curOD) ==
    [type |-> "text", layer |-> "F.SilkS",
     x |-> FromMM(curX),
     y |-> FromMM(FAdd(FAdd(curY, FHalf(curOD)), F(4000))),
     text |-> IntToStr(IntOf(k).n + 1)]

\* a faulty variant of WrapRow: the row wraps one record late
WrapRowLate(i, cols) == i > 1 /\ (i - 1) % cols = 0

\* if i > 0 and i % numCols == 0
WrapRow(i, cols) == i > 0 /\ i % cols = 0


\* m += 1
ColStep(m) == m + 1

\* for i, k in enumerate(keyList): ... from place i (0-based) on, with the
\* running yMod and m and the board so far; d maps a key to its four floats.
\* wxPointMM raises ValueError on a nan coordinate, before the record's
\* first pcb.Add (a nan step reaches here from the dialog).  The tables of
\* the model hold finite decimal numbers: no nan or inf text, no value
\* outside the host's 32-bit coordinates.
RECURSIVE PlaceLoop(_, _, _, _, _, _, _, _, _)
PlaceLoop(d, keyList, i, yMod0, m0, brd, xs, ys, cols) ==
    IF i >= Len(keyList) THEN [err |-> "none", board |-> brd]
    ELSE LET k == keyList[i + 1]
             wrap == WrapRow(i, cols)
             yMod == IF wrap THEN FAdd(yMod0, ys) ELSE yMod0
             m == IF wrap THEN 0 ELSE m0
             rec == Get(d, k)
             curX == FAdd(FAdd(rec.X, ToMM(0)), FMulInt(xs, m))
             curY == FAdd(FAdd(rec.Y, ToMM(0)), yMod)
         IN  IF PointRaises(curX, FAdd(FAdd(curY, FHalf(rec.OD)), F(4000)))
             THEN [err |-> "ValueError", board |-> brd]
             ELSE PlaceLoop(d, keyList, i + 1, yMod, ColStep(m),
                      brd \o <<LabelOf(k, curX, curY, rec.OD)>>
                          \o create_via(curX, curY, rec.ID, rec.OD),
                      xs, ys, cols)

\* viaDict of funnelFromJson with float(...) applied to the four fields
JsonFloats(d) ==
    [i \in 1..Len(d) |->
        [k |-> d[i].k,
         v |-> [X |-> PyFloat(d[i].v.X), Y |-> PyFloat(d[i].v.Y),
                ID |-> PyFloat(d[i].v.ID), OD |-> PyFloat(d[i].v.OD)]]]

\* the key order of funnelFromCSV and of funnelFromJson
CsvKeyList(d) == SortedKeys(d)
JsonKeyList(d) == ListKeys(d)

\* def funnelFromCSV(winFrame, csvFile, xStep, yStep, numCols): the table
\* is restored first; an exception leaves the board as it was up to there.
\* [d, err, board] for the file, the board and the arguments.
FunnelCSVResult(file, brd, xs, ys, cols) ==
    LET r == restoreCSV(file)
    IN  IF r.err # "none"
        THEN [d |-> r.d, err |-> r.err, board |-> brd]
        ELSE LET out == PlaceLoop(r.d, CsvKeyList(r.d), 0, F(0), 0, brd, xs, ys, cols)
             IN  [d |-> r.d, err |-> out.err, board |-> out.board]

funnelFromCSV(nextpc) ==
    LET out == FunnelCSVResult(csvFile, board, xStep, yStep, numCols)
    IN  /\ viaDict' = out.d
        /\ err' = out.err
        /\ board' = out.board
        /\ pc' = nextpc
        /\ UNCHANGED <<l, ret, csvFile, jsonFile, xStep, yStep, numCols,
                       fpList, fpBefore, dlg>>

\* def funnelFromJson(winFrame, jsonFile, xStep, yStep, numCols)
funnelFromJson(nextpc) ==
    LET d == JsonFloats(jsonFile)
        out == PlaceLoop(d, JsonKeyList(d), 0, F(0), 0, board, xStep, yStep, numCols)
    IN  /\ viaDict' = d
        /\ err' = out.err
        /\ board' = out.board
        /\ pc' = nextpc
        /\ UNCHANGED <<l, ret, csvFile, jsonFile, xStep, yStep, numCols,
                       fpList, fpBefore, dlg>>

-----------------------------------------------------------------------------
(* Inputs *)

\* the most records of a via table, the most columns of a grid
MaxRows == 3
MaxCols == 2

\* the stored indices of the via tables
Indices == {0, 1, 2, 10}

\* X, Y, ID, OD of a record, in thousandths of a millimetre
Geoms == { [X |-> 0, Y |-> 0, ID |-> 1000, OD |-> 2000],
           [X |-> 1500, Y |-> -500, ID |-> 600, OD |-> 1000] }

TableRows == { [index |-> i, X |-> g.X, Y |-> g.Y, ID |-> g.ID, OD |-> g.OD] :
               i \in Indices, g \in Geoms }

\* a via table: records with distinct indices, in file order
Tables ==
    UNION { { t \in [1..n -> TableRows] :
                \A a, b \in 1..n : a # b => t[a].index # t[b].index } :
            n \in 0..MaxRows }

CsvHeader == <<"index", "X", "Y", "ID", "OD">>

\* the table as a CSV file and as a JSON file
CsvOf(t) ==
    <<CsvHeader>> \o
    [i \in 1..Len(t) |-> <<IntToStr(t[i].index), FloatRepr(F(t[i].X)), FloatRepr(F(t[i].Y)),
                           FloatRepr(F(t[i].ID)), FloatRepr(F(t[i].OD))>>]

JsonNum(v) ==
    IF v % 1000 = 0 /\ v >= 0 THEN [isInt |-> TRUE, n |-> v \div 1000]
    ELSE [isInt |-> FALSE, f |-> F(v)]

JsonOf(t) ==
    [i \in 1..Len(t) |->
        [k |-> IntToStr(t[i].index),
         v |-> [X |-> JsonNum(t[i].X), Y |-> JsonNum(t[i].Y),
                ID |-> [isInt |-> FALSE, f |-> F(t[i].ID)],
                OD |-> [isInt |-> FALSE, f |-> F(t[i].OD)]]]]

\* step sizes in thousandths of a millimetre
XSteps == {1880, 500}
YSteps == {1630, 250}

NoneVal == [none |-> TRUE]

\* ViaGridDialog before it is constructed
NoDialog == [state |-> "none"]

-----------------------------------------------------------------------------
(* Grid placement: funnelFromCSV and funnelFromJson applied to a table *)

InitGrid ==
    /\ pc = "idle"
    /\ err = "none"
    /\ l = <<>>
    /\ ret = <<>>
    /\ \E t \in Tables : csvFile = CsvOf(t) /\ jsonFile = JsonOf(t)
    /\ viaDict = <<>>
    /\ xStep \in {F(v) : v \in XSteps}
    /\ yStep \in {F(v) : v \in YSteps}
    /\ numCols \in 1..MaxCols
    /\ board = <<>>
    /\ fpList = <<>>
    /\ fpBefore = <<>>
    /\ dlg = NoDialog

CallFunnelFromCSV == pc = "idle" /\ funnelFromCSV("csv_done")

CallFunnelFromJson == pc = "idle" /\ funnelFromJson("json_done")

NextGrid == CallFunnelFromCSV \/ CallFunnelFromJson

SpecGrid == InitGrid /\ [][NextGrid]_vars

-----------------------------------------------------------------------------
(* Properties of the grid placement *)

IntKey(k) == IntOf(k).n

\* the 0-based position of key k in ascending numeric index order
RankOf(d, k) == Cardinality({j \in 1..Len(d) : IntKey(d[j].k) < IntKey(k)})

\* thousandths of a millimetre in internal units
IUOf(v) == v * (IU_PER_MM \div 1000)

\* X_abs and Y_abs of section 4.2 for the record of key k, in internal units
XAbs(d, k, xs, cols) == IUOf(Get(d, k).X.v + xs.v * (RankOf(d, k) % cols))
YAbs(d, k, ys, cols) == IUOf(Get(d, k).Y.v + ys.v * (RankOf(d, k) \div cols))

\* the places of the board holding the label of the record of key k
LabelPlaces(brd, k) ==
    {p \in 1..Len(brd) : brd[p].type = "text" /\ brd[p].text = IntToStr(IntKey(k) + 1)}

\* the record of key k has one label, and the via added after it is at
\* (X_abs, Y_abs)
ViaOnGrid(d, brd, k, xs, ys, cols) ==
    /\ Cardinality(LabelPlaces(brd, k)) = 1
    /\ \A p \in LabelPlaces(brd, k) :
          /\ p + 1 <= Len(brd)
          /\ brd[p + 1].type = "via"
          /\ brd[p + 1].x = XAbs(d, k, xs, cols)
          /\ brd[p + 1].y = YAbs(d, k, ys, cols)

AllOnGrid(d, brd, xs, ys, cols) ==
    \A j \in 1..Len(d) : ViaOnGrid(d, brd, d[j].k, xs, ys, cols)

\* C1: after funnelFromCSV, the record at 0-based position i of the
\* ascending numeric index order has its via at X = record.X + xStep *
\* (i mod columns), Y = record.Y + yStep * floor(i / columns); the record at
\* position i = columns is in column 0, one yStep down.
C1_GridPlacement ==
    (pc = "csv_done" /\ err = "none") =>
        /\ AllOnGrid(viaDict, board, xStep, yStep, numCols)
        /\ \A j \in 1..Len(viaDict) :
              RankOf(viaDict, viaDict[j].k) = numCols =>
                 \A p \in LabelPlaces(board, viaDict[j].k) :
                    /\ board[p + 1].x = IUOf(viaDict[j].v.X.v)
                    /\ board[p + 1].y = IUOf(viaDict[j].v.Y.v + yStep.v)

\* a table with more records than columns whose file order is not the index
\* order, hence whose stored indices are not the positions
C1_Witness ==
    /\ pc = "csv_done"
    /\ err = "none"
    /\ Len(viaDict) > numCols
    /\ numCols = 2
    /\ Keys(viaDict) # SortedKeys(viaDict)
    /\ \E j \in 1..Len(viaDict) : IntKey(viaDict[j].k) # RankOf(viaDict, viaDict[j].k)

\* C2: funnelFromJson places the records in ascending numeric key order
\* whatever the order of the keys in the file, as funnelFromCSV does.
C2_JsonAscendingOrder ==
    (pc = "json_done" /\ err = "none") =>
        AllOnGrid(viaDict, board, xStep, yStep, numCols)

CountType(brd, ty) == Cardinality({p \in 1..Len(brd) : brd[p].type = ty})

\* the four elements of the record of key k, from place p of the board on
RecordElements(d, brd, k, p, xs, ys, cols) ==
    LET rec == Get(d, k)
        x == XAbs(d, k, xs, cols)
        y == YAbs(d, k, ys, cols)
    IN  /\ p + 3 <= Len(brd)
        /\ brd[p].x = x
        /\ 2 * brd[p].y = 2 * y + IUOf(rec.OD.v) + 2 * IUOf(4000)
        /\ brd[p + 1].type = "via"
        /\ brd[p + 1].x = x /\ brd[p + 1].y = y
        /\ brd[p + 1].drill = IUOf(rec.ID.v)
        /\ brd[p + 1].width = IUOf(rec.OD.v)
        /\ \A q \in {p + 2, p + 3} :
              /\ brd[q].type = "circle"
              /\ brd[q].filled
              /\ brd[q].x = x /\ brd[q].y = y
              /\ brd[q].startX = x
              /\ 2 * (brd[q].endX - brd[q].startX) = IUOf(rec.OD.v)
        /\ {brd[p + 2].layer, brd[p + 3].layer} = {"F.Mask", "B.Mask"}

\* C10: funnelFromCSV on a table of n records adds exactly n vias, 2n filled
\* mask circles and n labels; per record the via is at (X_abs, Y_abs) with
\* drill ID and width OD, a front and a back mask circle of diameter OD are
\* centred there, and the label shows the stored index + 1 at
\* (X_abs, Y_abs + OD/2 + 4 mm).
C10_ElementsPerRecord ==
    (pc = "csv_done" /\ err = "none") =>
        /\ CountType(board, "via") = Len(viaDict)
        /\ CountType(board, "circle") = 2 * Len(viaDict)
        /\ CountType(board, "text") = Len(viaDict)
        /\ Len(board) = 4 * Len(viaDict)
        /\ \A j \in 1..Len(viaDict) :
              /\ Cardinality(LabelPlaces(board, viaDict[j].k)) = 1
              /\ \A p \in LabelPlaces(board, viaDict[j].k) :
                    RecordElements(viaDict, board, viaDict[j].k, p, xStep, yStep, numCols)

\* a table of three records, one of a stored index that is not its position
C10_Witness ==
    /\ pc = "csv_done"
    /\ err = "none"
    /\ Len(viaDict) = 3
    /\ Len(board) = 12
    /\ \E j \in 1..Len(viaDict) : IntKey(viaDict[j].k) = 10

-----------------------------------------------------------------------------
(* natural_sort applied to a list of labels *)

\* the most labels of a list
MaxLabels == 4

A1 == <<"A", "1">>
A2 == <<"A", "2">>
A10 == <<"A", "1", "0">>
B1 == <<"B", "1">>

Labels == {A1, A2, A10, B1, <<"a", "2">>, <<"b">>, <<"A", "0", "2", "x">>}

\* the lists of distinct labels
LabelLists ==
    UNION { { s \in [1..n -> Labels] : \A a, b \in 1..n : a # b => s[a] # s[b] } :
            n \in 0..MaxLabels }

InitSort ==
    /\ pc = "idle"
    /\ err = "none"
    /\ l \in LabelLists
    /\ ret = <<>>
    /\ csvFile = <<>>
    /\ jsonFile = <<>>
    /\ viaDict = <<>>
    /\ xStep = F(0)
    /\ yStep = F(0)
    /\ numCols = 1
    /\ board = <<>>
    /\ fpList = <<>>
    /\ fpBefore = <<>>
    /\ dlg = NoDialog

CallNaturalSort ==
    /\ pc = "idle"
    /\ ret' = natural_sort(l)
    /\ pc' = "sorted"
    /\ UNCHANGED <<err, l, csvFile, jsonFile, viaDict, xStep, yStep, numCols,
                   board, fpList, fpBefore, dlg>>

NextSort == CallNaturalSort

SpecSort == InitSort /\ [][NextSort]_vars

Range(s) == {s[i] : i \in 1..Len(s)}

Count(s, x) == Cardinality({i \in 1..Len(s) : s[i] = x})

IsPermutation(s, t) ==
    /\ Len(s) = Len(t)
    /\ \A x \in Range(s) \cup Range(t) : Count(s, x) = Count(t, x)

\* the runs of a label: non-digit runs lowered, digit runs as integers
RunsOf(s) == alphanum_key(s)

\* C6: natural_sort returns a permutation of its argument in which no label
\* comes before one of a smaller key, the key being the runs of the label
\* with digit runs compared as integers and the other runs compared
\* case-insensitively; A1, A10, A2, B1 in any order come out as A1, A2,
\* A10, B1.
C6_NaturalSort ==
    pc = "sorted" =>
        /\ IsPermutation(ret, l)
        /\ \A i, j \in 1..Len(ret) : i < j => ~ListLess(RunsOf(ret[j]), RunsOf(ret[i]))
        /\ Range(l) = {A1, A10, A2, B1} => ret = <<A1, A2, A10, B1>>
        /\ Range(l) = {A10, <<"a", "2">>} => ret = <<<<"a", "2">>, A10>>

\* the four labels of the example, given in another order
C6_Witness ==
    /\ pc = "sorted"
    /\ l = <<B1, A10, A2, A1>>
    /\ ret = <<A1, A2, A10, B1>>

-----------------------------------------------------------------------------
(* Mils: exact fractions [n, d] with d > 0 *)

RECURSIVE Gcd(_, _)
Gcd(a, b) == IF b = 0 THEN a ELSE Gcd(b, a % b)

Abs(a) == IF a < 0 THEN -a ELSE a

\* int(...): the quotient rounded towards zero
TruncDiv(a, b) == IF a >= 0 THEN a \div b ELSE -((-a) \div b)

Rat(n) == [n |-> n, d |-> 1]

\* pcbnew.ToMils: float(iu) / IU_PER_MILS, of an integer or of a float
ToMils(q) ==
    LET g == Gcd(Abs(q.n), IU_PER_MILS)
    IN  [n |-> q.n \div g, d |-> q.d * (IU_PER_MILS \div g)]

\* float + int
RatAddInt(q, k) == [n |-> q.n + k * q.d, d |-> q.d]

\* pcbnew.FromMils: int(float(mils) * IU_PER_MILS)
FromMils(q) ==
    LET g == Gcd(q.d, IU_PER_MILS)
    IN  TruncDiv(q.n * (IU_PER_MILS \div g), q.d \div g)

-----------------------------------------------------------------------------
(* distributeX, distributeY, distributeXY *)

\* fp.SetPosition(VECTOR2I(x, y))
SetPosition(fp, x, y) == [fp EXCEPT !.x = x, !.y = y]

\* a faulty variant of MoveX: the Y coordinate takes the step too
MoveXBoth(fp, step, m) ==
    LET curX == RatAddInt(ToMils(Rat(fp.x)), step * m)
        curY == RatAddInt(ToMils(Rat(fp.y)), step * m)
    IN  SetPosition(fp, FromMils(curX), FromMils(curY))

\* the body of distributeX for a selected footprint: curX = ToMils(x) +
\* xStep*m, curY = ToMils(y), newPos = wxPointMils(curX, curY)
MoveX(fp, step, m) ==
    LET curX == RatAddInt(ToMils(Rat(fp.x)), step * m)
        curY == ToMils(Rat(fp.y))
    IN  SetPosition(fp, FromMils(curX), FromMils(curY))

\* the body of distributeY for a selected footprint: curX stays in internal
\* units, curY = ToMils(ToMils(y) + yStep*m), newPos = wxPointMils(curX, curY)
MoveY(fp, step, m) ==
    LET curX == Rat(fp.x)
        curY == ToMils(RatAddInt(ToMils(Rat(fp.y)), step * m))
    IN  SetPosition(fp, FromMils(curX), FromMils(curY))

\* the body of distributeXY for a selected footprint: curX = ToMils(x) +
\* xStep*m, curY = ToMils(y) + yMod
MoveXY(fp, xs, m, yMod) ==
    LET curX == RatAddInt(ToMils(Rat(fp.x)), xs * m)
        curY == RatAddInt(ToMils(Rat(fp.y)), yMod)
    IN  SetPosition(fp, FromMils(curX), FromMils(curY))

\* for fp in fpList: if fp.IsSelected(): ... m += 1, from footprint j on
RECURSIVE DistXLoop(_, _, _, _)
DistXLoop(fps, j, m, step) ==
    IF j > Len(fps) THEN fps
    ELSE IF fps[j].selected
         THEN DistXLoop([fps EXCEPT ![j] = MoveX(fps[j], step, m)], j + 1, m + 1, step)
         ELSE DistXLoop(fps, j + 1, m, step)

RECURSIVE DistYLoop(_, _, _, _)
DistYLoop(fps, j, m, step) ==
    IF j > Len(fps) THEN fps
    ELSE IF fps[j].selected
         THEN DistYLoop([fps EXCEPT ![j] = MoveY(fps[j], step, m)], j + 1, m + 1, step)
         ELSE DistYLoop(fps, j + 1, m, step)

\* sortedFP = [x for _, x in sorted(zip(fpNames, fpList))] with fpNames =
\* natural_sort(fpNames): the j-th footprint of the board is paired with the
\* j-th name of the natural order, and the pairs are sorted as tuples, the
\* names compared as plain strings.  The result lists places of fpList.
\* Reference labels are distinct, so no two tuples tie on the name.
SortedFP(fps) ==
    LET fpNames == natural_sort([j \in 1..Len(fps) |-> fps[j].ref])
    IN  Vals(SortPairs([j \in 1..Len(fps) |->
            [key |-> <<[isInt |-> FALSE, s |-> fpNames[j]]>>, val |-> j]]))

\* for i, fp in enumerate(sortedFP): if fp.IsSelected(): move; if i > 0 and
\* i % numCols == 0: yMod += yStep; m = 0.  From place i (0-based) on.
RECURSIVE DistXYLoop(_, _, _, _, _, _, _, _)
DistXYLoop(fps, order, i, m, yMod, xs, ys, cols) ==
    IF i >= Len(order) THEN fps
    ELSE LET j == order[i + 1]
         IN  IF fps[j].selected
             THEN LET wrap == i > 0 /\ i % cols = 0
                  IN  DistXYLoop([fps EXCEPT ![j] = MoveXY(fps[j], xs, m, yMod)],
                                 order, i + 1,
                                 IF wrap THEN 0 ELSE m + 1,
                                 IF wrap THEN yMod + ys ELSE yMod,
                                 xs, ys, cols)
             ELSE DistXYLoop(fps, order, i + 1, m, yMod, xs, ys, cols)

Others == <<err, l, ret, csvFile, jsonFile, viaDict, board, dlg>>

\* def distributeX(winFrame, xStep)
distributeX ==
    /\ pc = "idle"
    /\ fpBefore' = fpList
    /\ fpList' = DistXLoop(fpList, 1, 0, xStep)
    /\ pc' = "distX_done"
    /\ UNCHANGED <<xStep, yStep, numCols>>
    /\ UNCHANGED Others

\* def distributeY(winFrame, yStep)
distributeY ==
    /\ pc = "idle"
    /\ fpBefore' = fpList
    /\ fpList' = DistYLoop(fpList, 1, 0, yStep)
    /\ pc' = "distY_done"
    /\ UNCHANGED <<xStep, yStep, numCols>>
    /\ UNCHANGED Others

\* def distributeXY(winFrame, xStep, yStep, numCols)
distributeXY ==
    /\ pc = "idle"
    /\ fpBefore' = fpList
    /\ fpList' = DistXYLoop(fpList, SortedFP(fpList), 0, 0, 0, xStep, yStep, numCols)
    /\ pc' = "distXY_done"
    /\ UNCHANGED <<xStep, yStep, numCols>>
    /\ UNCHANGED Others

\* the most footprints of a board
MaxFootprints == 3

\* the place of each footprint before the operation, in internal units
HomeOf(ref) ==
    CASE ref = A1 -> [x |-> 0, y |-> 25400]
      [] ref = A2 -> [x |-> 25400, y |-> 63500]
      [] ref = A10 -> [x |-> 63500, y |-> 12700]
      [] ref = B1 -> [x |-> 50800, y |-> 0]

RefLabels == {A1, A2, A10, B1}

\* the boards: footprints of distinct reference labels in any host order,
\* each selected or not
Boards ==
    UNION { { f \in [1..n -> [ref : RefLabels, selected : BOOLEAN]] :
                \A a, b \in 1..n : a # b => f[a].ref # f[b].ref } :
            n \in 0..MaxFootprints }

Footprints(f) ==
    [j \in 1..Len(f) |->
        [ref |-> f[j].ref, selected |-> f[j].selected,
         x |-> HomeOf(f[j].ref).x, y |-> HomeOf(f[j].ref).y]]

\* step sizes in mils
MilSteps == {360, 66}

InitDistribute ==
    /\ pc = "idle"
    /\ err = "none"
    /\ l = <<>>
    /\ ret = <<>>
    /\ csvFile = <<>>
    /\ jsonFile = <<>>
    /\ viaDict = <<>>
    /\ xStep \in MilSteps
    /\ yStep \in MilSteps
    /\ numCols \in 1..MaxCols
    /\ board = <<>>
    /\ \E f \in Boards : fpList = Footprints(f)
    /\ fpBefore = <<>>
    /\ dlg = NoDialog

NextDistribute == distributeX \/ distributeY \/ distributeXY

SpecDistribute == InitDistribute /\ [][NextDistribute]_vars

-----------------------------------------------------------------------------
(* Properties of the footprint re-spacing *)

\* the number of selected footprints before place j in host iteration order
SelectedBefore(fps, j) == Cardinality({h \in 1..(j - 1) : fps[h].selected})

\* the number of selected footprints whose own label is before that of
\* footprint j in the natural alphanumeric order
SelectedBeforeNatural(fps, j) ==
    Cardinality({h \in 1..Len(fps) :
        fps[h].selected /\ ListLess(RunsOf(fps[h].ref), RunsOf(fps[j].ref))})

\* footprint j of now is footprint j of before, moved by (dx, dy) mils
MovedBy(now, before, j, dx, dy) ==
    /\ now[j].ref = before[j].ref
    /\ now[j].selected = before[j].selected
    /\ now[j].x = before[j].x + dx * IU_PER_MILS
    /\ now[j].y = before[j].y + dy * IU_PER_MILS

\* the same footprints, the unselected ones where they were
SameFootprints(now, before) ==
    /\ Len(now) = Len(before)
    /\ \A j \in 1..Len(before) : ~before[j].selected => now[j] = before[j]

\* C3: distributeX moves the nth selected footprint of the host iteration
\* order by n * xStep along X and leaves its Y; n counts the selected
\* footprints only; the footprints that are not selected stay.
C3_DistributeX ==
    pc = "distX_done" =>
        /\ SameFootprints(fpList, fpBefore)
        /\ \A j \in 1..Len(fpBefore) :
              fpBefore[j].selected =>
                 MovedBy(fpList, fpBefore, j, SelectedBefore(fpBefore, j) * xStep, 0)

\* a selected footprint behind a selected and an unselected one, off the
\* mil grid
C3_Witness ==
    /\ pc = "distX_done"
    /\ \E j \in 1..Len(fpBefore) :
          /\ fpBefore[j].selected
          /\ SelectedBefore(fpBefore, j) = 1
          /\ j = 3
          /\ fpBefore[j].y % IU_PER_MILS # 0
          /\ fpList[j].x # fpBefore[j].x

\* C4: distributeY moves the nth selected footprint of the host iteration
\* order by n * yStep along Y and leaves its X; the footprints that are not
\* selected stay.
C4_DistributeY ==
    pc = "distY_done" =>
        /\ SameFootprints(fpList, fpBefore)
        /\ \A j \in 1..Len(fpBefore) :
              fpBefore[j].selected =>
                 MovedBy(fpList, fpBefore, j, 0, SelectedBefore(fpBefore, j) * yStep)

\* C5: distributeXY moves the kth selected footprint of the natural order of
\* the footprints' own reference labels by xStep * (k mod numCols) along X
\* and yStep * floor(k / numCols) along Y; no footprint is created and the
\* footprints that are not selected stay.
C5_DistributeXY ==
    pc = "distXY_done" =>
        /\ SameFootprints(fpList, fpBefore)
        /\ \A j \in 1..Len(fpBefore) :
              fpBefore[j].selected =>
                 MovedBy(fpList, fpBefore, j,
                         xStep * (SelectedBeforeNatural(fpBefore, j) % numCols),
                         yStep * (SelectedBeforeNatural(fpBefore, j) \div numCols))

-----------------------------------------------------------------------------
(* convertJSONtoCSV, and restoreCSV of the file it wrote *)

\* rows.append({"index": int(k), "X": v["X"], ...}) for k in sorted(jd.keys(),
\* key=lambda s: int(s)), and the fields csv.DictWriter writes for each
CsvRows(jd) ==
    LET keys == SortedKeys(jd)
    IN  [i \in 1..Len(keys) |->
            LET v == Get(jd, keys[i])
            IN  <<IntToStr(IntOf(keys[i]).n), PyStr(v.X), PyStr(v.Y), PyStr(v.ID), PyStr(v.OD)>>]

\* wr.writeheader(); wr.writerows(rows) with fieldnames index, X, Y, ID, OD
WriteCsv(jd) == <<<<"index", "X", "Y", "ID", "OD">>>> \o CsvRows(jd)

\* def convertJSONtoCSV(winFrame): the user confirms or cancels the open
\* dialog and the save dialog; a cancelled dialog returns before the file is
\* written
convertJSONtoCSV ==
    /\ pc = "idle"
    /\ \E openOk, saveOk \in BOOLEAN :
          IF openOk /\ saveOk
          THEN /\ csvFile' = WriteCsv(jsonFile)
               /\ pc' = "conv_done"
          ELSE /\ csvFile' = csvFile
               /\ pc' = "conv_cancelled"
    /\ UNCHANGED <<err, l, ret, jsonFile, viaDict, xStep, yStep, numCols,
                   board, fpList, fpBefore, dlg>>

\* restoreCSV(csv_path) on the file the converter wrote
CallRestoreCSV ==
    /\ pc = "conv_done"
    /\ viaDict' = restoreCSV(csvFile).d
    /\ err' = restoreCSV(csvFile).err
    /\ pc' = "restored"
    /\ UNCHANGED <<l, ret, csvFile, jsonFile, xStep, yStep, numCols,
                   board, fpList, fpBefore, dlg>>

InitConvert ==
    /\ pc = "idle"
    /\ err = "none"
    /\ l = <<>>
    /\ ret = <<>>
    /\ csvFile = <<>>
    /\ \E t \in Tables : jsonFile = JsonOf(t)
    /\ viaDict = <<>>
    /\ xStep = F(0)
    /\ yStep = F(0)
    /\ numCols = 1
    /\ board = <<>>
    /\ fpList = <<>>
    /\ fpBefore = <<>>
    /\ dlg = NoDialog

NextConvert == convertJSONtoCSV \/ CallRestoreCSV

SpecConvert == InitConvert /\ [][NextConvert]_vars

\* the numeric indices of a mapping
IndexSet(d) == {IntKey(d[i].k) : i \in 1..Len(d)}

\* the value of the record of numeric index n
ByIndex(d, n) == d[CHOOSE i \in 1..Len(d) : IntKey(d[i].k) = n].v

\* C7: convertJSONtoCSV followed by restoreCSV of the written file gives a
\* mapping with the indices of the JSON table and, for each index, its X, Y,
\* ID and OD; the CSV rows are in ascending numeric index order under the
\* header index,X,Y,ID,OD.
C7_RoundTrip ==
    pc = "restored" =>
        /\ err = "none"
        /\ Len(viaDict) = Len(jsonFile)
        /\ IndexSet(viaDict) = IndexSet(jsonFile)
        /\ \A n \in IndexSet(jsonFile) :
              /\ ByIndex(viaDict, n).X = PyFloat(ByIndex(jsonFile, n).X)
              /\ ByIndex(viaDict, n).Y = PyFloat(ByIndex(jsonFile, n).Y)
              /\ ByIndex(viaDict, n).ID = PyFloat(ByIndex(jsonFile, n).ID)
              /\ ByIndex(viaDict, n).OD = PyFloat(ByIndex(jsonFile, n).OD)
        /\ csvFile[1] = <<"index", "X", "Y", "ID", "OD">>
        /\ Len(csvFile) = Len(jsonFile) + 1
        /\ \A i, j \in 2..Len(csvFile) :
              i < j => IntOf(csvFile[i][1]).n < IntOf(csvFile[j][1]).n

\* a JSON table of three records, not in index order, holding an integer,
\* a negative and a fractional number
C7_Witness ==
    /\ pc = "restored"
    /\ Len(jsonFile) = 3
    /\ Keys(jsonFile) # SortedKeys(jsonFile)
    /\ \E i, j \in 1..Len(jsonFile) :
          /\ jsonFile[i].v.X.isInt
          /\ ~jsonFile[j].v.Y.isInt
          /\ jsonFile[j].v.Y.f.v < 0
          /\ Get(viaDict, jsonFile[j].k).Y.v < 0

-----------------------------------------------------------------------------
(* distributeVias.Run and ViaGridDialog *)

\* default_cols of the dialog Run constructs
DefaultCols == 10

\* ViaGridDialog.__init__ with default_x_in=1.880, default_y_in=1.630,
\* default_cols=10, default_units="inches"
NewDialog ==
    [state |-> "open",
     txt_x |-> FloatRepr(F(1880)),
     txt_y |-> FloatRepr(F(1630)),
     spin_cols |-> DefaultCols,
     choice_units |-> "inches",
     x |-> NoneVal, y |-> NoneVal, cols |-> NoneVal, units |-> NoneVal,
     result |-> "open",
     msg |-> "none"]

\* x * 25.4
FInches(a) == IF a.nan THEN NaN ELSE F((a.v * 254) \div 10)

\* def get_values_mm(self)
get_values_mm(d) ==
    IF d.x = NoneVal THEN NoneVal
    ELSE IF d.units = "inches"
         THEN [x |-> FInches(d.x), y |-> FInches(d.y), cols |-> d.cols]
         ELSE [x |-> d.x, y |-> d.y, cols |-> d.cols]

RunOthers == <<l, ret, csvFile, jsonFile, fpList, fpBefore>>

\* Run up to the configuration dialog: the file dialog is cancelled, or the
\* chosen path is no file, or the dialog is constructed and shown
RunFileDialog ==
    /\ pc = "idle"
    /\ \E r \in {"ID_OK", "ID_CANCEL", "not a file"} :
          IF r = "ID_OK"
          THEN /\ dlg' = NewDialog
               /\ pc' = "dialog"
          ELSE /\ dlg' = dlg
               /\ pc' = "returned"
    /\ UNCHANGED <<err, viaDict, xStep, yStep, numCols, board>>
    /\ UNCHANGED RunOthers

\* what the user may type into a step field
StepTexts ==
    { <<"1", ".", "8", "8">>, <<" ", "0", ".", "5">>, <<"0">>, <<"-", "1">>,
      <<"x">>, <<"n", "a", "n">> }

\* the user changes a control of the open dialog; the spin control keeps its
\* value within min=1, max=10000
EditX ==
    /\ pc = "dialog"
    /\ \E t \in StepTexts : dlg' = [dlg EXCEPT !.txt_x = t]
    /\ UNCHANGED <<pc, err, viaDict, xStep, yStep, numCols, board>>
    /\ UNCHANGED RunOthers

EditY ==
    /\ pc = "dialog"
    /\ \E t \in StepTexts : dlg' = [dlg EXCEPT !.txt_y = t]
    /\ UNCHANGED <<pc, err, viaDict, xStep, yStep, numCols, board>>
    /\ UNCHANGED RunOthers

EditCols ==
    /\ pc = "dialog"
    /\ \E n \in 1..MaxCols : dlg' = [dlg EXCEPT !.spin_cols = n]
    /\ UNCHANGED <<pc, err, viaDict, xStep, yStep, numCols, board>>
    /\ UNCHANGED RunOthers

EditUnits ==
    /\ pc = "dialog"
    /\ \E u \in {"inches", "mm"} : dlg' = [dlg EXCEPT !.choice_units = u]
    /\ UNCHANGED <<pc, err, viaDict, xStep, yStep, numCols, board>>
    /\ UNCHANGED RunOthers

\* the try block of _on_ok raises: float() fails, or x <= 0 or y <= 0
StepsInvalid(fx, fy) ==
    \/ ~fx.ok
    \/ ~fy.ok
    \/ FLeqZero(fx.f)
    \/ FLeqZero(fy.f)

\* def _on_ok(self, evt)
on_ok ==
    /\ pc = "dialog"
    /\ LET fx == FloatOf(Strip(dlg.txt_x))
           fy == FloatOf(Strip(dlg.txt_y))
           cols == dlg.spin_cols
       IN  IF StepsInvalid(fx, fy)
           THEN /\ dlg' = [dlg EXCEPT !.msg = "Invalid numeric input"]
                /\ pc' = pc
           ELSE IF cols < 1
           THEN /\ dlg' = [dlg EXCEPT !.msg = "Number of columns must be at least 1."]
                /\ pc' = pc
           ELSE /\ dlg' = [dlg EXCEPT !.x = fx.f, !.y = fy.f, !.cols = cols,
                                      !.units = dlg.choice_units,
                                      !.result = "ID_OK", !.state = "closed"]
                /\ pc' = "dialog_ok"
    /\ UNCHANGED <<err, viaDict, xStep, yStep, numCols, board>>
    /\ UNCHANGED RunOthers

\* the Cancel button ends the dialog; Run destroys it and returns
OnCancel ==
    /\ pc = "dialog"
    /\ dlg' = [dlg EXCEPT !.result = "ID_CANCEL", !.state = "closed"]
    /\ pc' = "returned"
    /\ UNCHANGED <<err, viaDict, xStep, yStep, numCols, board>>
    /\ UNCHANGED RunOthers

\* Run after ShowModal returned wx.ID_OK: get_values_mm, then funnelFromCSV
RunPlace ==
    /\ pc = "dialog_ok"
    /\ LET vals == get_values_mm(dlg)
           out == FunnelCSVResult(csvFile, board, vals.x, vals.y, vals.cols)
       IN  /\ xStep' = vals.x
           /\ yStep' = vals.y
           /\ numCols' = vals.cols
           /\ viaDict' = out.d
           /\ err' = out.err
           /\ board' = out.board
    /\ pc' = "returned"
    /\ UNCHANGED dlg
    /\ UNCHANGED RunOthers

\* a well-formed table of three records, not in index order
RunTable ==
    << [index |-> 10, X |-> 0, Y |-> 0, ID |-> 1000, OD |-> 2000],
       [index |-> 0, X |-> 1500, Y |-> -500, ID |-> 600, OD |-> 1000],
       [index |-> 2, X |-> 0, Y |-> 0, ID |-> 1000, OD |-> 2000] >>

GoodFile == CsvOf(RunTable)

\* the files the user may choose: well-formed ones, and ones with a missing
\* column, a short row, a non-numeric field or index, in the first row or
\* after valid rows
RunFiles ==
    { GoodFile,
      <<>>,
      <<CsvHeader>>,
      SubSeq(GoodFile, 1, 2) \o << <<>> >> \o SubSeq(GoodFile, 3, 4),
      [i \in 1..Len(GoodFile) |-> SubSeq(GoodFile[i], 1, 4)],
      [GoodFile EXCEPT ![2] = SubSeq(GoodFile[2], 1, 3)],
      [GoodFile EXCEPT ![4] = SubSeq(GoodFile[4], 1, 4)],
      [GoodFile EXCEPT ![2][2] = <<"x">>],
      [GoodFile EXCEPT ![4][5] = <<"1", ".", "0", "m", "m">>],
      [GoodFile EXCEPT ![3][1] = <<"1", ".", "5">>] }

InitRun ==
    /\ pc = "idle"
    /\ err = "none"
    /\ l = <<>>
    /\ ret = <<>>
    /\ csvFile \in RunFiles
    /\ jsonFile = <<>>
    /\ viaDict = <<>>
    /\ xStep = F(0)
    /\ yStep = F(0)
    /\ numCols = 1
    /\ board = <<>>
    /\ fpList = <<>>
    /\ fpBefore = <<>>
    /\ dlg = NoDialog

NextRun ==
    \/ RunFileDialog
    \/ EditX
    \/ EditY
    \/ EditCols
    \/ EditUnits
    \/ on_ok
    \/ OnCancel
    \/ RunPlace

SpecRun == InitRun /\ [][NextRun]_vars

\* a row of the file does not parse: a column is missing from the header or
\* from the row, or a field is not a number
Malformed(file) ==
    \E i \in 2..Len(file) : file[i] # <<>> /\ RowErr(file[1], file[i]) # "none"

Confirmed == dlg # NoDialog /\ dlg.result = "ID_OK"

\* C8: in one run of the plugin the board is changed only after the file
\* dialog and the configuration dialog were confirmed and the whole table
\* was parsed; a cancelled dialog or a malformed file ends the run with no
\* element added, and the malformed file with the error raised.
C8_MutationAfterParse ==
    /\ board # <<>> => (Confirmed /\ ~Malformed(csvFile) /\ pc = "returned")
    /\ (pc = "returned" /\ Confirmed /\ Malformed(csvFile)) =>
          (board = <<>> /\ err \in {"KeyError", "TypeError", "ValueError"})
    /\ (pc = "returned" /\ ~Confirmed) => (board = <<>> /\ err = "none")

\* both dialogs confirmed on a file whose last row lacks a field, after two
\* rows that parse
C8_Witness ==
    /\ pc = "returned"
    /\ Confirmed
    /\ Len(csvFile) = 4
    /\ RowErr(csvFile[1], csvFile[2]) = "none"
    /\ RowErr(csvFile[1], csvFile[3]) = "none"
    /\ RowErr(csvFile[1], csvFile[4]) = "TypeError"
    /\ err = "TypeError"
    /\ board = <<>>

Positive(f) == ~f.nan /\ f.v > 0

\* C9: the dialog ends with wx.ID_OK and stores the values only if X step
\* > 0, Y step > 0 and columns >= 1; while it is open nothing is stored; the
\* values get_values_mm returns after an OK have both steps > 0 and columns
\* >= 1.
C9_DialogAcceptsValidOnly ==
    dlg # NoDialog =>
        /\ dlg.result = "ID_OK" =>
              (Positive(dlg.x) /\ Positive(dlg.y) /\ dlg.cols >= 1)
        /\ dlg.result # "ID_OK" =>
              (dlg.x = NoneVal /\ dlg.y = NoneVal /\ dlg.cols = NoneVal)
        /\ (dlg.result = "ID_OK" /\ pc = "returned") =>
              (Positive(xStep) /\ Positive(yStep) /\ numCols >= 1)

=============================================================================
